---- MODULE Spec2Model ----
(***************************************************************************)
(* Model of scripts/static_analysis.py and scripts/static_analysis_inc:    *)
(* argument validation, source discovery, batch partitioning, the          *)
(* ThreadPool driven tree scan and the process-wide progress counters.     *)
(*                                                                         *)
(* Strings are sequences of tokens ("/" and names), so that prefix and     *)
(* substring tests are computed the way str.startswith and `in` compute    *)
(* them.  Python's None is the record NoneVal, a str is Str(tokens).       *)
(***************************************************************************)
EXTENDS Integers, Sequences, FiniteSets, TLC

\* ---------------------------------------------------------------- bounds
MaxDb == 3            \* entries of a compilation database (source harness)
MaxBatch == 3         \* batch sizes tried on batched()
MaxRunDb == 6         \* entries of the compilation database of a run
MaxJobs == 2          \* largest --jobs value given on the command line
MaxCpu == 6           \* largest os.cpu_count()
MaxInc == 3           \* largest increment of a progress_update call
MaxTotal == 4         \* largest total of a progress_start call
MaxProcessed == 7     \* cap of the processed counter in the progress harness
MaxTime == 2          \* seconds the clock advances in the progress harness

\* ------------------------------------------------------- program constants
TIDY_BATCH == 2

\* ------------------------------------------------------------ python values
NoneVal == [none |-> TRUE]
Str(s) == [str |-> s]
IsNone(v) == "none" \in DOMAIN v
\* truth value of `v` in a condition: None and '' are false
Truthy(v) == ~IsNone(v) /\ Len(v.str) > 0

Min(a, b) == IF a < b THEN a ELSE b

\* str.startswith(prefix) on token sequences
StartsWith(s, prefix) ==
    /\ Len(prefix) <= Len(s)
    /\ SubSeq(s, 1, Len(prefix)) = prefix

\* `needle in s` on token sequences
IsSubstring(needle, s) ==
    \E i \in 0..(Len(s) - Len(needle)) :
        SubSeq(s, i + 1, i + Len(needle)) = needle

EXTRA == <<"/", "extra", "/">>
NO_CHECKS == <<"Error: no checks enabled">>

\* ------------------------------------------------------- source discovery
\* the filters of the loop body of list_sources; isfile is the set of paths
\* for which os.path.isfile is true at discovery time
KeepWrongExtra(path, scan_root, isfile) ==
    /\ ~(Truthy(scan_root) /\ ~StartsWith(path, scan_root.str))
    /\ ~(~Truthy(scan_root) /\ IsSubstring(EXTRA, path))
    /\ path \in isfile

Keep(path, scan_root, isfile) ==
    /\ ~(Truthy(scan_root) /\ ~StartsWith(path, scan_root.str))
    /\ ~IsSubstring(EXTRA, path)
    /\ path \in isfile

RECURSIVE FilterEntries(_, _, _)
FilterEntries(db, scan_root, isfile) ==
    IF db = <<>> THEN <<>>
    ELSE (IF Keep(Head(db), scan_root, isfile) THEN <<Head(db)>> ELSE <<>>)
            \o FilterEntries(Tail(db), scan_root, isfile)

InSeq(x, s) == \E i \in 1..Len(s) : s[i] = x

\* list(dict.fromkeys(files)): keys keep the position of their first insert
RECURSIVE FromKeysAcc(_, _)
FromKeysAcc(files, acc) ==
    IF files = <<>> THEN acc
    ELSE FromKeysAcc(Tail(files),
                     IF InSeq(Head(files), acc) THEN acc
                     ELSE Append(acc, Head(files)))

dict_fromkeys_nodedup(files) == files

dict_fromkeys(files) == FromKeysAcc(files, <<>>)

list_sources(db, scan_root, isfile) ==
    dict_fromkeys(FilterEntries(db, scan_root, isfile))

\* ----------------------------------------------------------------- batching
\* itertools.islice(it, n) on what is left of the iterator
islice(s, n) == SubSeq(s, 1, Min(n, Len(s)))

RECURSIVE BatchedFull(_, _)
BatchedFull(s, n) ==
    IF Len(s) < n \/ n = 0 THEN <<>>
    ELSE <<SubSeq(s, 1, n)>> \o BatchedFull(SubSeq(s, n + 1, Len(s)), n)

batched_droplast(s, n) == BatchedFull(s, n)

RECURSIVE batched(_, _)
batched(s, n) ==
    LET batch == islice(s, n)
    IN  IF batch = <<>> THEN <<>>
        ELSE <<batch>> \o batched(SubSeq(s, Len(batch) + 1, Len(s)), n)

RECURSIVE Concat(_)
Concat(ss) == IF ss = <<>> THEN <<>> ELSE Head(ss) \o Concat(Tail(ss))

\* ------------------------------------------------------------------- state
VARIABLES
    pc,               \* position of the main thread
    args,             \* the argparse namespace after parse_arguments
    exit_status,      \* -1 while the process runs, then its exit status
    shell_log,        \* kinds of command lines handed to shell_execute
    db,               \* file fields of compile_commands.json, in order
    isfile,           \* paths for which os.path.isfile holds
    target_files,     \* result of list_sources
    batch_size,       \* second argument of batched
    batches,          \* result of batched
    inqueue,          \* ThreadPool task queue: chunks of batch numbers
    workers,          \* worker threads of the pool
    exec_count,       \* shell_execute calls made for each batch
    PROCESSED_FILES,
    TOTAL_FILES,
    START_TIME,
    now,              \* time.time(), in seconds
    report,           \* what the last progress_report wrote
    since_start,      \* increments passed to progress_update since the
                      \* last progress_start (history of the calls)
    interrupted,      \* KeyboardInterrupt was raised in pool.map
    abort_notice,     \* "Script aborted." was printed
    done_count,       \* calls of progress_done
    timeout_logged,   \* a "Command timed out" line was written
    task_failed       \* a pool task ended with an exception

vars == <<pc, args, exit_status, shell_log, db, isfile, target_files,
          batch_size, batches, inqueue, workers, exec_count,
          PROCESSED_FILES, TOTAL_FILES, START_TIME, now, report,
          since_start, interrupted, abort_notice, done_count,
          timeout_logged, task_failed>>

progress_vars == <<PROCESSED_FILES, TOTAL_FILES, START_TIME, now, report,
                   since_start>>
source_vars == <<db, isfile, target_files, batch_size, batches>>
pool_vars == <<inqueue, workers, exec_count, interrupted, abort_notice,
               done_count, timeout_logged, task_failed>>

NoArgs == [scan_tree |-> FALSE, scan_commit |-> FALSE, scan_root |-> NoneVal,
           jobs |-> 0, clang_tidy |-> FALSE, clang_tidy_diff |-> FALSE,
           build_path |-> FALSE]

NoReport == [kind |-> "none", processed |-> 0, total |-> 0, remain |-> 0]

\* values every specification starts from: the module globals of helpers.py
\* and tool_clang_tidy.py, and nothing run yet
Globals ==
    /\ exit_status = -1
    /\ target_files = <<>>
    /\ batch_size = TIDY_BATCH
    /\ batches = <<>>
    /\ inqueue = <<>>
    /\ workers = <<>>
    /\ exec_count = <<>>
    /\ PROCESSED_FILES = 0
    /\ TOTAL_FILES = 0
    /\ START_TIME = 0
    /\ now = 0
    /\ report = NoReport
    /\ since_start = 0
    /\ interrupted = FALSE
    /\ abort_notice = FALSE
    /\ done_count = 0
    /\ timeout_logged = FALSE
    /\ task_failed = FALSE

\* ------------------------------------------------------- progress tracker
\* int(x / y) for x of either sign: Python's int() truncates toward zero
TruncDiv(x, y) == IF x >= 0 THEN x \div y ELSE -((-x) \div y)

\* the line progress_report writes, or the previous one when it writes none
progress_report(processed, total, start, t, old) ==
    IF total > 0 /\ processed > 0
    THEN [kind |-> "eta", processed |-> processed, total |-> total,
          remain |-> TruncDiv((total - processed) * (t - start), processed)]
    ELSE IF total > 0
    THEN [kind |-> "zero", processed |-> 0, total |-> total, remain |-> 0]
    ELSE old

\* ------------------------------------------ source discovery and batching
\* paths of the compilation databases tried: sources under /sql and /lib,
\* third party code under /sql/extra/, and a file that is named extra
PathSql == <<"/", "sql", "/", "a.cc">>
PathSqlExtra == <<"/", "sql", "/", "extra", "/", "b.cc">>
PathLib == <<"/", "lib", "/", "c.cc">>
PathNamedExtra == <<"/", "sql", "/", "extra">>
Paths == {PathSql, PathSqlExtra, PathLib, PathNamedExtra}

\* values of --scan-root: not given, '', /sql and /sql/extra
ScanRoots == {NoneVal, Str(<<>>), Str(<<"/", "sql">>),
              Str(<<"/", "sql", "/", "extra">>)}

SeqsUpTo(S, n) == UNION {[1..k -> S] : k \in 0..n}

InitSources ==
    /\ Globals
    /\ shell_log = {}
    /\ pc = "sources"
    /\ db \in SeqsUpTo(Paths, MaxDb)
    /\ isfile \in SUBSET Paths
    /\ \E root \in ScanRoots : args = [NoArgs EXCEPT !.scan_root = root]

\* target_files = helpers.list_sources(build_path, scan_root)
ListSources ==
    /\ pc = "sources"
    /\ target_files' = list_sources(db, args.scan_root, isfile)
    /\ pc' = "listed"
    /\ UNCHANGED <<args, exit_status, shell_log, db, isfile, batch_size,
                   batches, progress_vars, pool_vars>>

\* list(helpers.batched(target_files, n))
Batched ==
    /\ pc = "listed"
    /\ \E n \in 1..MaxBatch :
        /\ batch_size' = n
        /\ batches' = batched(target_files, n)
    /\ pc' = "batched"
    /\ UNCHANGED <<args, exit_status, shell_log, db, isfile, target_files,
                   progress_vars, pool_vars>>

NextSources == ListSources \/ Batched

SpecSources == InitSources /\ [][NextSources]_vars

\* C6: batched yields ceil(N/B) batches for N files and batch size B >= 1,
\* every batch but the last has exactly B files, no batch is empty, and the
\* batches concatenated in order are the file list.
C6_BatchPartition ==
    pc = "batched" =>
        LET N == Len(target_files)
            B == batch_size
        IN  /\ Len(batches) = (N + B - 1) \div B
            /\ \A i \in 1..Len(batches) :
                /\ Len(batches[i]) >= 1
                /\ (i < Len(batches) => Len(batches[i]) = B)
                /\ Len(batches[i]) <= B
            /\ Concat(batches) = target_files

\* three files in batches of two: a full batch and a shorter last one
C6_Witness ==
    /\ pc = "batched"
    /\ Len(target_files) = 3
    /\ batch_size = 2
    /\ Len(batches) = 2
    /\ Len(batches[2]) = 1

FirstIndex(s, x) == CHOOSE i \in 1..Len(s) : s[i] = x /\ \A k \in 1..(i - 1) : s[k] # x

\* C7: list_sources returns each qualifying path of the database exactly
\* once, duplicates or not, in the order of the first occurrences.
C7_DedupFirstOccurrence ==
    pc = "listed" =>
        /\ \A p \in Paths :
              (InSeq(p, db) /\ Keep(p, args.scan_root, isfile))
                  => Cardinality({i \in 1..Len(target_files) : target_files[i] = p}) = 1
        /\ \A i, j \in 1..Len(target_files) :
              i < j => /\ target_files[i] # target_files[j]
                       /\ FirstIndex(db, target_files[i]) < FirstIndex(db, target_files[j])

\* a database naming a qualifying file twice, with another one in between
C7_Witness ==
    /\ pc = "listed"
    /\ Len(db) = 3
    /\ db[1] = db[3]
    /\ db[1] # db[2]
    /\ Len(target_files) = 2

\* C8: a path is in the output of list_sources exactly when the database
\* names it, it starts with the scan-root (when one is given), it does not
\* contain /extra/, and it is a file at discovery time; a database with no
\* such path gives the empty list.
C8_FilterExact ==
    pc = "listed" =>
        /\ \A p \in Paths :
              InSeq(p, target_files) <=>
                  /\ InSeq(p, db)
                  /\ (~IsNone(args.scan_root) => StartsWith(p, args.scan_root.str))
                  /\ ~IsSubstring(<<"/", "extra", "/">>, p)
                  /\ p \in isfile
        /\ \A i \in 1..Len(target_files) : target_files[i] \in Paths

\* scan-root /sql/extra names third party code that exists: it is left out,
\* while the file that is only named extra is kept
C8_Witness ==
    /\ pc = "listed"
    /\ args.scan_root = Str(<<"/", "sql", "/", "extra">>)
    /\ InSeq(PathSqlExtra, db)
    /\ PathSqlExtra \in isfile
    /\ target_files = <<PathNamedExtra>>

\* --------------------------------------------------- progress tracker calls
\* the calls of the tracker in any order, as a caller of helpers.py may
\* make them, with the clock advancing in between
InitProgress ==
    /\ Globals
    /\ shell_log = {}
    /\ pc = "progress"
    /\ args = NoArgs
    /\ db = <<>>
    /\ isfile = {}

\* helpers.progress_start(total)
ProgressStart ==
    /\ pc \in {"progress", "started", "reported"}
    /\ \E total \in 0..MaxTotal : TOTAL_FILES' = total
    /\ START_TIME' = now
    /\ since_start' = 0
    /\ pc' = "started"
    /\ UNCHANGED <<args, exit_status, shell_log, source_vars, pool_vars,
                   PROCESSED_FILES, now, report>>

\* helpers.progress_update(increment), from one thread
ProgressUpdate ==
    /\ pc \in {"progress", "started", "reported"}
    /\ \E increment \in 1..MaxInc :
        /\ PROCESSED_FILES + increment <= MaxProcessed
        /\ PROCESSED_FILES' = PROCESSED_FILES + increment
        /\ since_start' = since_start + increment
    /\ pc' = IF pc = "progress" THEN "progress" ELSE "started"
    /\ UNCHANGED <<args, exit_status, shell_log, source_vars, pool_vars,
                   TOTAL_FILES, START_TIME, now, report>>

\* helpers.progress_report()
ProgressReport ==
    /\ pc \in {"progress", "started", "reported"}
    /\ report' = progress_report(PROCESSED_FILES, TOTAL_FILES, START_TIME,
                                 now, report)
    /\ pc' = IF pc = "progress" THEN "progress" ELSE "reported"
    /\ UNCHANGED <<args, exit_status, shell_log, source_vars, pool_vars,
                   PROCESSED_FILES, TOTAL_FILES, START_TIME, now,
                   since_start>>

\* a second passes
Tick ==
    /\ pc \in {"progress", "started"}
    /\ now < MaxTime
    /\ now' = now + 1
    /\ UNCHANGED <<pc, args, exit_status, shell_log, source_vars, pool_vars,
                   PROCESSED_FILES, TOTAL_FILES, START_TIME, report,
                   since_start>>

NextProgress == ProgressStart \/ ProgressUpdate \/ ProgressReport \/ Tick

SpecProgress == InitProgress /\ [][NextProgress]_vars

\* C9: a report made after progress_start(total) and any updates shows the
\* sum of the increments made since that start as processed, the given
\* total, and a remaining time that is not negative, whatever was counted
\* before the start; with nothing processed and total > 0 it is the 0% line.
C9_StartResets ==
    (pc = "reported" /\ TOTAL_FILES > 0) =>
        /\ report.processed = since_start
        /\ report.total = TOTAL_FILES
        /\ report.remain >= 0
        /\ (since_start = 0 => report.kind = "zero")

\* ------------------------------------------------ arguments and detection
\* what pick_tidy_binary returns and the commands it runs on the way.
\* user_tidy, user_diff: "absent" (option not given), "file" (names a
\* file), "missing" (names no file); env: what the probes find
pick_tidy_binary(user_tidy, user_diff, scan_tree, no_warn, env) ==
    IF ~env.git /\ ~scan_tree
    THEN [tidy |-> FALSE, diff |-> FALSE, shell |-> {"git"}]
    ELSE [tidy |-> IF user_tidy = "absent" THEN env.which_tidy
                   ELSE user_tidy = "file",
          diff |-> IF user_diff = "absent" THEN env.diff_found
                   ELSE user_diff = "file",
          shell |-> {"git"} \cup
                    (IF user_tidy = "absent" /\ env.which_tidy /\ ~no_warn
                     THEN {"version"} ELSE {})]

\* args.jobs after parse_arguments
jobs_count(jobs_arg, cpu) == IF jobs_arg <= 0 THEN cpu \div 3 ELSE jobs_arg

ScanRootRejectedWithTree(scan_root, scan_tree) == Truthy(scan_root) /\ scan_tree

\* the last validation of parse_arguments
ScanRootRejected(scan_root, scan_tree) == Truthy(scan_root) /\ ~scan_tree

Exit(status) ==
    /\ pc' = "exited"
    /\ exit_status' = status

InitArgs ==
    /\ Globals
    /\ shell_log = {}
    /\ pc = "parse"
    /\ args = NoArgs
    /\ db = <<>>
    /\ isfile = {}

\* parse_arguments(): target is the scan target option given, user_path
\* tells whether --path was given, build_found what find_build_path finds.
\* detect_source_root_dir falls back to os.getcwd(), so its result is never
\* empty and the exit after it is not taken.
ParseArguments ==
    /\ pc = "parse"
    /\ \E target \in {"none", "tree", "commit"}, root \in ScanRoots,
          jobs_arg \in (-1)..MaxJobs, cpu \in 1..MaxCpu,
          user_tidy \in {"absent", "file", "missing"},
          user_diff \in {"absent", "file", "missing"},
          no_warn \in BOOLEAN, user_path \in BOOLEAN, build_found \in BOOLEAN,
          env \in [git : BOOLEAN, which_tidy : BOOLEAN, diff_found : BOOLEAN] :
        LET tree == target = "tree"
            picked == pick_tidy_binary(user_tidy, user_diff, tree, no_warn, env)
            given == [NoArgs EXCEPT !.scan_tree = tree,
                                    !.scan_commit = (target = "commit"),
                                    !.scan_root = root,
                                    !.jobs = jobs_arg]
            resolved == [given EXCEPT !.clang_tidy = picked.tidy,
                                      !.clang_tidy_diff = picked.diff,
                                      !.jobs = jobs_count(jobs_arg, cpu)]
        IN  IF target = "none"
            THEN /\ args' = given
                 /\ UNCHANGED shell_log
                 /\ Exit(1)
            ELSE /\ shell_log' = picked.shell
                 /\ IF ~user_path /\ ~build_found
                    THEN /\ args' = resolved
                         /\ Exit(1)
                    ELSE /\ args' = [resolved EXCEPT !.build_path = TRUE]
                         /\ IF ScanRootRejected(root, tree)
                            THEN Exit(1)
                            ELSE /\ pc' = "run"
                                 /\ UNCHANGED exit_status
    /\ UNCHANGED <<source_vars, progress_vars, pool_vars>>

\* run_static_analysis(): the tool the target needs was not found
MissingTool ==
    /\ pc = "run"
    /\ \/ args.scan_tree /\ ~args.clang_tidy
       \/ ~args.scan_tree /\ ~args.clang_tidy_diff
    /\ Exit(1)
    /\ UNCHANGED <<args, shell_log, source_vars, progress_vars, pool_vars>>

\* run_static_analysis() -> scan_commit(): one pipeline into the diff script
ScanCommit ==
    /\ pc = "run"
    /\ ~args.scan_tree
    /\ args.clang_tidy_diff
    /\ shell_log' = shell_log \cup {"diff"}
    /\ Exit(0)
    /\ UNCHANGED <<args, source_vars, progress_vars, pool_vars>>

\* -------------------------------------------------------------- tree scan
\* the compilation database of a run: its first n entries; the second
\* entry repeats the first file, every file exists
RunPath(i) == <<"/", "sql", "/", ToString(IF i = 2 THEN 1 ELSE i)>>
RunDb(n) == [i \in 1..n |-> RunPath(i)]

IdleWorker == [pc |-> "idle", chunk |-> <<>>, out |-> NoneVal, err |-> NoneVal,
               rc |-> 0, printed_out |-> FALSE, printed_err |-> FALSE,
               inc |-> 0, tmp |-> 0]

\* Pool.map: the batches are cut into chunks of chunksize batches, one
\* task each, and all tasks are queued at once
pool_map_tasks(n, jobs) ==
    LET chunksize == IF n = 0 THEN 0
                     ELSE (n \div (jobs * 4)) + (IF n % (jobs * 4) # 0 THEN 1 ELSE 0)
    IN  batched([i \in 1..n |-> i], chunksize)

\* run_static_analysis() -> scan_tree() up to the pool.map call:
\* list_sources, progress_start, progress_report, ThreadPool(jobs_count),
\* which raises ValueError for a job count below 1
ScanTree ==
    /\ pc = "run"
    /\ args.scan_tree
    /\ args.clang_tidy
    /\ \E n \in 0..MaxRunDb :
        LET files == list_sources(RunDb(n), args.scan_root,
                                  {RunPath(i) : i \in 1..n})
            parts == batched(files, TIDY_BATCH)
        IN  /\ db' = RunDb(n)
            /\ isfile' = {RunPath(i) : i \in 1..n}
            /\ target_files' = files
            /\ batches' = parts
            /\ TOTAL_FILES' = Len(files)
            /\ START_TIME' = now
            /\ since_start' = 0
            /\ report' = progress_report(PROCESSED_FILES, Len(files), now, now,
                                         report)
            /\ exec_count' = [b \in 1..Len(parts) |-> 0]
            /\ IF args.jobs < 1
               THEN /\ Exit(1)
                    /\ UNCHANGED <<workers, inqueue>>
               ELSE /\ workers' = [w \in 1..args.jobs |-> IdleWorker]
                    /\ inqueue' = pool_map_tasks(Len(parts), args.jobs)
                    /\ pc' = "map"
                    /\ UNCHANGED exit_status
    /\ shell_log' = shell_log \cup {"git"}
    /\ UNCHANGED <<args, batch_size, PROCESSED_FILES, now, interrupted,
                   abort_notice, done_count, timeout_logged, task_failed>>

NextArgs == ParseArguments \/ MissingTool \/ ScanCommit \/ ScanTree

SpecArgs == InitArgs /\ [][NextArgs]_vars

Outs == {<<>>, <<"a.cc:1: warning">>}
Errs == {<<>>, <<"12 warnings generated.">>,
         <<"Error: no checks enabled">>}
ProcOutcomes ==
    {[timeout |-> TRUE, out |-> <<>>, err |-> <<>>, rc |-> 0]}
        \cup [timeout : {FALSE}, out : Outs, err : Errs, rc : {0, 1}]

shell_execute_nocatch(proc) ==
    IF proc.timeout
    THEN [raised |-> TRUE, out |-> NoneVal, err |-> NoneVal, rc |-> 1]
    ELSE [raised |-> FALSE, out |-> Str(proc.out), err |-> Str(proc.err),
          rc |-> proc.rc]

\* shell_execute: TimeoutExpired is caught and (None, None, 1) returned
shell_execute(proc) ==
    IF proc.timeout
    THEN [raised |-> FALSE, out |-> NoneVal, err |-> NoneVal, rc |-> 1]
    ELSE [raised |-> FALSE, out |-> Str(proc.out), err |-> Str(proc.err),
          rc |-> proc.rc]

\* run_tidy: the condition of print(out)
print_out(out, err) == ~Truthy(err) \/ ~IsSubstring(NO_CHECKS, err.str)

print_err_any_stdout(out, err, rc) ==
    rc # 0 /\ Truthy(err) /\ ~IsSubstring(NO_CHECKS, err.str)

\* run_tidy: the condition of print(err, file=sys.stderr)
print_err(out, err, rc) ==
    rc # 0 /\ Truthy(err) /\ ~Truthy(out) /\ ~IsSubstring(NO_CHECKS, err.str)

Running == pc \in {"map", "aborting"}

\* the batch a busy worker is at
Current(w) == Head(workers[w].chunk)

\* a pool worker calls run_tidy on the next batch of its chunk, or of the
\* next chunk of the queue, up to the start of the analyzer process
RunTidyStart(w) ==
    /\ Running
    /\ workers[w].pc = "idle"
    /\ workers[w].chunk # <<>> \/ inqueue # <<>>
    /\ LET chunk == IF workers[w].chunk # <<>> THEN workers[w].chunk
                    ELSE Head(inqueue)
       IN  /\ workers' = [workers EXCEPT ![w].pc = "exec", ![w].chunk = chunk]
           /\ exec_count' = [exec_count EXCEPT ![Head(chunk)] = @ + 1]
    /\ inqueue' = IF workers[w].chunk # <<>> THEN inqueue ELSE Tail(inqueue)
    /\ shell_log' = shell_log \cup {"tidy"}
    /\ UNCHANGED <<pc, args, exit_status, source_vars, progress_vars,
                   interrupted, abort_notice, done_count, timeout_logged,
                   task_failed>>

\* shell_execute returns in run_tidy, which prints by its two conditions;
\* an exception would end the worker's task
ShellReturn(w) ==
    /\ Running
    /\ workers[w].pc = "exec"
    /\ \E proc \in ProcOutcomes :
        LET r == shell_execute(proc)
        IN  /\ timeout_logged' = (timeout_logged \/ proc.timeout)
            /\ IF r.raised
               THEN /\ workers' = [workers EXCEPT ![w] = IdleWorker]
                    /\ task_failed' = TRUE
               ELSE /\ workers' = [workers EXCEPT
                          ![w].pc = "update",
                          ![w].out = r.out,
                          ![w].err = r.err,
                          ![w].rc = r.rc,
                          ![w].printed_out = print_out(r.out, r.err),
                          ![w].printed_err = print_err(r.out, r.err, r.rc)]
                    /\ UNCHANGED task_failed
    /\ UNCHANGED <<pc, args, exit_status, shell_log, source_vars,
                   progress_vars, inqueue, exec_count, interrupted,
                   abort_notice, done_count>>

\* progress_update(len(files)): PROCESSED_FILES is loaded ...
ProgressUpdateLoad(w) ==
    /\ Running
    /\ workers[w].pc = "update"
    /\ workers' = [workers EXCEPT
          ![w] = [IdleWorker EXCEPT !.pc = "store",
                                    !.chunk = workers[w].chunk,
                                    !.inc = Len(batches[Current(w)]),
                                    !.tmp = PROCESSED_FILES]]
    /\ UNCHANGED <<pc, args, exit_status, shell_log, source_vars,
                   progress_vars, inqueue, exec_count, interrupted,
                   abort_notice, done_count, timeout_logged, task_failed>>

\* ... and the sum is stored; then progress_report() and run_tidy returns
ProgressUpdateStore(w) ==
    /\ Running
    /\ workers[w].pc = "store"
    /\ PROCESSED_FILES' = workers[w].tmp + workers[w].inc
    /\ since_start' = since_start + workers[w].inc
    /\ report' = progress_report(PROCESSED_FILES', TOTAL_FILES, START_TIME,
                                 now, report)
    /\ workers' = [workers EXCEPT
          ![w] = [IdleWorker EXCEPT !.chunk = Tail(workers[w].chunk)]]
    /\ UNCHANGED <<pc, args, exit_status, shell_log, source_vars,
                   TOTAL_FILES, START_TIME, now, inqueue, exec_count,
                   interrupted, abort_notice, done_count, timeout_logged,
                   task_failed>>

AllTasksDone ==
    /\ inqueue = <<>>
    /\ \A w \in DOMAIN workers :
          workers[w].pc = "idle" /\ workers[w].chunk = <<>>

\* pool.map returns (or raises what a task raised), the pool is left,
\* progress_done() and the script ends
MapReturns ==
    /\ pc = "map"
    /\ AllTasksDone
    /\ IF task_failed
       THEN /\ Exit(1)
            /\ UNCHANGED done_count
       ELSE /\ Exit(0)
            /\ done_count' = done_count + 1
    /\ UNCHANGED <<args, shell_log, source_vars, progress_vars, inqueue,
                   workers, exec_count, interrupted, abort_notice,
                   timeout_logged, task_failed>>

\* SIGINT: KeyboardInterrupt is raised in the main thread inside pool.map
Interrupt ==
    /\ pc = "map"
    /\ pc' = "aborting"
    /\ interrupted' = TRUE
    /\ UNCHANGED <<args, exit_status, shell_log, source_vars, progress_vars,
                   inqueue, workers, exec_count, abort_notice, done_count,
                   timeout_logged, task_failed>>

\* the except clause: the notice, progress_done(), sys.exit(1); leaving the
\* with block terminates the pool, which empties the task queue
Abort ==
    /\ pc = "aborting"
    /\ abort_notice' = TRUE
    /\ done_count' = done_count + 1
    /\ inqueue' = <<>>
    /\ Exit(1)
    /\ UNCHANGED <<args, shell_log, source_vars, progress_vars, workers,
                   exec_count, interrupted, timeout_logged, task_failed>>

\* run_static_analysis is entered in tree mode with the analyzer found
Init ==
    /\ Globals
    /\ shell_log = {"git"}
    /\ pc = "run"
    /\ \E jobs \in 0..MaxJobs :
          args = [NoArgs EXCEPT !.scan_tree = TRUE, !.jobs = jobs,
                                !.clang_tidy = TRUE, !.build_path = TRUE]
    /\ db = <<>>
    /\ isfile = {}

Worker(w) ==
    \/ RunTidyStart(w)
    \/ ShellReturn(w)
    \/ ProgressUpdateLoad(w)
    \/ ProgressUpdateStore(w)

Next ==
    \/ ScanTree
    \/ \E w \in DOMAIN workers : Worker(w)
    \/ MapReturns
    \/ Interrupt
    \/ Abort

Spec == Init /\ [][Next]_vars

\* C1 as claimed: during a tree scan no step lowers the processed count and
\* the count never exceeds the total.
C1_MonotoneBounded ==
    [][Running => /\ PROCESSED_FILES' >= PROCESSED_FILES
                  /\ PROCESSED_FILES' <= TOTAL_FILES']_vars

\* C2 as claimed: when an uninterrupted tree scan has completed, the
\* processed count is the number of discovered files.
C2_NoLostUpdate ==
    (pc = "exited" /\ exit_status = 0 /\ ~interrupted /\ args.scan_tree) =>
        PROCESSED_FILES = Len(target_files)

PoolCreated == workers # <<>>

\* C3: an analyzer call that times out or fails does not end the run: no
\* batch is executed twice, while batches are left some worker can go on,
\* and a run that ends without an interrupt has executed every batch once,
\* called progress_done once and exits with status 0.
C3_FailureIsolated ==
    /\ \A b \in DOMAIN exec_count : exec_count[b] <= 1
    /\ (pc = "map" /\ ~AllTasksDone) => ENABLED (\E w \in DOMAIN workers : Worker(w))
    /\ (pc = "map" /\ AllTasksDone) => ENABLED MapReturns
    /\ (pc = "exited" /\ ~interrupted /\ PoolCreated) =>
          /\ \A b \in DOMAIN exec_count : exec_count[b] = 1
          /\ done_count = 1
          /\ ~abort_notice
          /\ exit_status = 0

\* a run of three batches with a timeout in it has ended with status 0
C3_Witness ==
    /\ pc = "exited"
    /\ ~interrupted
    /\ timeout_logged
    /\ Len(batches) = 3
    /\ \A b \in DOMAIN exec_count : exec_count[b] = 1
    /\ done_count = 1
    /\ exit_status = 0

\* C4 as claimed: after the interrupt no further batch gets an analyzer
\* invocation, and the process ends with the abort notice, one
\* progress_done and exit status 1.
C4_InterruptStops ==
    [][/\ interrupted => exec_count' = exec_count
       /\ (interrupted' /\ pc' = "exited") =>
             /\ abort_notice'
             /\ done_count' = 1
             /\ exit_status' = 1]_vars

HasDiagnostic(err) == ~IsNone(err) /\ IsSubstring(<<"Error: no checks enabled">>, err.str)
IsEmpty(v) == IsNone(v) \/ v.str = <<>>

\* C10: for every result of the analyzer call of a batch, stdout is printed
\* exactly when the "no checks enabled" diagnostic is absent, stderr is
\* printed exactly when it is non-empty, the exit code is non-zero, stdout
\* is empty and the diagnostic is absent, and the batch then passes its
\* file count to progress_update.
C10_OutputPolicy ==
    [][/\ \A w \in DOMAIN workers' :
            workers'[w].pc = "update" =>
                /\ workers'[w].printed_out = ~HasDiagnostic(workers'[w].err)
                /\ workers'[w].printed_err =
                      (/\ workers'[w].rc # 0
                       /\ IsEmpty(workers'[w].out)
                       /\ ~IsEmpty(workers'[w].err)
                       /\ ~HasDiagnostic(workers'[w].err))
       /\ \A w \in DOMAIN workers :
            /\ (workers[w].pc = "update" /\ workers'[w] # workers[w]) =>
                  /\ workers'[w].pc = "store"
                  /\ workers'[w].inc = Len(batches[Current(w)])
            /\ (workers[w].pc = "store" /\ workers'[w] # workers[w]) =>
                  since_start' = since_start + Len(batches[Current(w)])]_vars

\* a failed analyzer call with empty stdout had its stderr printed, and a
\* call that timed out had print(out) executed
C10_Witness ==
    \E w, v \in DOMAIN workers :
        /\ workers[w].pc = "update"
        /\ workers[w].printed_err
        /\ workers[w].printed_out
        /\ workers[v].pc = "update"
        /\ IsNone(workers[v].out)
        /\ workers[v].printed_out

\* C11 as claimed: whatever --jobs and the CPU count are, a tree scan whose
\* analyzer and build path were found gets its worker pool: the job count
\* handed to ThreadPool is at least 1, the pool has that many workers, and
\* the process does not end before the batches are submitted.
C11_JobsAtLeastOne ==
    (args.scan_tree /\ args.clang_tidy /\ args.build_path /\ pc # "parse") =>
        /\ pc # "exited"
        /\ (pc = "map" => /\ args.jobs >= 1
                          /\ Len(workers) = args.jobs)

====
